---- MODULE Spec2Model ----
(***************************************************************************)
(* Model of stroka::String, a string with small string optimisation.       *)
(* A value is either Sso (inline StrBuf of SSO_MAX_SIZE bytes) or Heap     *)
(* (a MiniVec<u8> with its own capacity).  The content is a sequence of    *)
(* bytes; characters are Unicode code points encoded as UTF-8.             *)
(***************************************************************************)
EXTENDS Integers, Sequences, FiniteSets, TLC

(* ------------------------------ bounds --------------------------------- *)
\* longest content (in bytes) the model lets a value grow to
MaxLen == 7
\* longest string handed to push_str
MaxPush == 4
\* longest string handed to insert_str
MaxInsert == 3
\* longest string handed to replace_range
MaxReplace == 2
\* largest heap capacity an allocation may return
MaxCap == MaxLen + 1

(* ----------------------- program constants ----------------------------- *)
\* mem::size_of::<HeapStr>(): one machine word (32 bit target)
WordSize == 4
SSO_MAX_SIZE == WordSize * 2 - 2

\* the characters the callers use: 'a' (1 byte), U+00E9 (2 bytes),
\* U+5358 (3 bytes) and U+1D11E (4 bytes)
Chars == {97, 233, 21336, 119070}

(* ------------------------------ UTF-8 ---------------------------------- *)
\* char::encode_utf8
encode_utf8(cp) ==
    IF cp < 128 THEN <<cp>>
    ELSE IF cp < 2048 THEN <<192 + (cp \div 64), 128 + (cp % 64)>>
    ELSE IF cp < 65536
        THEN <<224 + (cp \div 4096), 128 + ((cp \div 64) % 64), 128 + (cp % 64)>>
        ELSE <<240 + (cp \div 262144), 128 + ((cp \div 4096) % 64),
               128 + ((cp \div 64) % 64), 128 + (cp % 64)>>

\* char::len_utf8
len_utf8(cp) ==
    IF cp < 128 THEN 1 ELSE IF cp < 2048 THEN 2 ELSE IF cp < 65536 THEN 3 ELSE 4

\* a continuation byte 10xxxxxx
IsCont(b) == b >= 128 /\ b < 192

\* width of the character a lead byte starts, 0 when the byte starts none
utf8_char_width(b) ==
    IF b < 128 THEN 1
    ELSE IF b >= 194 /\ b < 224 THEN 2
    ELSE IF b >= 224 /\ b < 240 THEN 3
    ELSE IF b >= 240 /\ b < 245 THEN 4
    ELSE 0

\* core::str::from_utf8(bytes).is_ok() for the encodings of up to 4 bytes
RECURSIVE IsUtf8(_)
IsUtf8(bytes) ==
    IF bytes = <<>> THEN TRUE
    ELSE LET w == utf8_char_width(bytes[1])
         IN /\ w > 0
            /\ w <= Len(bytes)
            /\ \A i \in 2..w : IsCont(bytes[i])
            /\ IsUtf8(SubSeq(bytes, w + 1, Len(bytes)))

\* str::is_char_boundary
is_char_boundary(bytes, index) ==
    IF index = 0 THEN TRUE
    ELSE IF index >= Len(bytes) THEN index = Len(bytes)
    ELSE ~IsCont(bytes[index + 1])

\* the code point of the character of width w that starts at byte i (1-based)
DecodeAt(bytes, i, w) ==
    IF w = 1 THEN bytes[i]
    ELSE IF w = 2 THEN (bytes[i] - 192) * 64 + (bytes[i + 1] - 128)
    ELSE IF w = 3 THEN (bytes[i] - 224) * 4096 + (bytes[i + 1] - 128) * 64
                       + (bytes[i + 2] - 128)
    ELSE (bytes[i] - 240) * 262144 + (bytes[i + 1] - 128) * 4096
         + (bytes[i + 2] - 128) * 64 + (bytes[i + 3] - 128)

\* str::chars() collected: the characters of a valid UTF-8 string, in order
RECURSIVE chars(_)
chars(bytes) ==
    IF bytes = <<>> THEN <<>>
    ELSE LET w == utf8_char_width(bytes[1])
         IN <<DecodeAt(bytes, 1, w)>> \o chars(SubSeq(bytes, w + 1, Len(bytes)))

\* all valid UTF-8 strings over Chars of exactly n bytes
RECURSIVE StrsOfLen(_)
StrsOfLen(n) ==
    IF n = 0 THEN {<<>>}
    ELSE UNION {{s \o encode_utf8(c) : s \in StrsOfLen(n - len_utf8(c))} :
                  c \in {c \in Chars : len_utf8(c) <= n}}

StrsUpTo(n) == UNION {StrsOfLen(k) : k \in 0..n}

\* the strings callers construct values from, and the strings they append
InitInputs == StrsUpTo(MaxLen)
PushInputs == StrsUpTo(MaxPush)
InsertInputs == StrsUpTo(MaxInsert)

(* ------------------------ the two representations ---------------------- *)
\* String::Sso(StrBuf): the inline buffer; its capacity is the constant S
Sso(bytes) == [heap |-> FALSE, bytes |-> bytes, cap |-> SSO_MAX_SIZE]
\* String::Heap(MiniVec<u8>)
Heap(bytes, cap) == [heap |-> TRUE, bytes |-> bytes, cap |-> cap]

\* capacities an allocation of at least n bytes may come back with
AllocCaps(n) == (n..MaxCap) \cup {n}

is_heap(self) == self.heap
len(self) == Len(self.bytes)
capacity(self) == IF self.heap THEN self.cap ELSE SSO_MAX_SIZE
as_bytes(self) == self.bytes
is_empty(self) == Len(self.bytes) = 0
\* StrBuf::remaining
remaining(sso) == SSO_MAX_SIZE - Len(sso.bytes)

\* the outcome of a call: the value afterwards, whether the call panicked,
\* whether it ran into undefined behaviour, and the character it returned
Done(val) == [val |-> val, panic |-> FALSE, ub |-> FALSE, some |-> FALSE, ch |-> 0]
Panic(val) == [val |-> val, panic |-> TRUE, ub |-> FALSE, some |-> FALSE, ch |-> 0]
Returned(val, c) == [val |-> val, panic |-> FALSE, ub |-> FALSE, some |-> TRUE, ch |-> c]
Undefined(val) == [val |-> val, panic |-> FALSE, ub |-> TRUE, some |-> FALSE, ch |-> 0]

(* ----------------------------- String ---------------------------------- *)
\* String::new
new == Sso(<<>>)

\* new_str with the length test of from_str_checked off by one
new_str_strict(text) ==
    IF Len(text) < SSO_MAX_SIZE
        THEN {Sso(text)}
        ELSE {Heap(text, c) : c \in AllocCaps(Len(text))}

\* String::new_str: inline when StrBuf::from_str_checked accepts the text
new_str(text) ==
    IF Len(text) <= SSO_MAX_SIZE
        THEN {Sso(text)}
        ELSE {Heap(text, c) : c \in AllocCaps(Len(text))}

\* with_capacity with the capacity test off by one
with_capacity_strict(cap) ==
    IF cap < SSO_MAX_SIZE
        THEN {new}
        ELSE {Heap(<<>>, c) : c \in AllocCaps(cap)}

\* String::with_capacity
with_capacity(cap) ==
    IF cap <= SSO_MAX_SIZE
        THEN {new}
        ELSE {Heap(<<>>, c) : c \in AllocCaps(cap)}

\* assert_heap_from_sso that leaves the length of the new buffer at zero
assert_heap_from_sso_unset(self, cap) ==
    {Heap(<<>>, c) : c \in AllocCaps(cap)}

\* String::assert_heap_from_sso: a heap buffer of the asked capacity holding
\* a verbatim copy of the inline bytes
assert_heap_from_sso(self, cap) ==
    {Heap(SubSeq(self.bytes, 1, len(self)), c) : c \in AllocCaps(cap)}

\* reserve that compares the addition alone with the capacity
reserve_ignores_len(self, additional) ==
    LET required == len(self) + additional
    IN IF additional <= capacity(self) THEN {Done(self)}
       ELSE IF ~self.heap
           THEN {Done(h) : h \in assert_heap_from_sso(self, required)}
           ELSE {Done(Heap(self.bytes, c)) : c \in AllocCaps(required)}

\* String::reserve
reserve(self, additional) ==
    LET required == len(self) + additional
    IN IF required <= capacity(self) THEN {Done(self)}
       ELSE IF ~self.heap
           THEN {Done(h) : h \in assert_heap_from_sso(self, required)}
           ELSE {Done(Heap(self.bytes, c)) : c \in AllocCaps(required)}

\* String::reserve_exact
reserve_exact(self, additional) ==
    LET required == len(self) + additional
    IN IF required <= capacity(self) THEN {Done(self)}
       ELSE IF ~self.heap
           THEN {Done(h) : h \in assert_heap_from_sso(self, required)}
           ELSE {Done(Heap(self.bytes, required))}

\* shrink_to_fit that moves a content that fits back into the inline buffer
shrink_to_fit_demote(self) ==
    IF self.heap /\ len(self) > SSO_MAX_SIZE
        THEN {Done(Heap(self.bytes, len(self)))}
        ELSE {Done(Sso(self.bytes))}

\* shrink_to_fit that keeps the buffer as it is
shrink_to_fit_keep(self) == {Done(self)}

\* String::shrink_to_fit
shrink_to_fit(self) ==
    IF self.heap THEN {Done(Heap(self.bytes, len(self)))} ELSE {Done(self)}

\* clear that starts over with a new inline value
clear_new(self) == {Done(Sso(<<>>))}

\* String::clear
clear(self) ==
    IF self.heap THEN {Done(Heap(<<>>, self.cap))} ELSE {Done(Sso(<<>>))}

\* truncate that gives the cut capacity back
truncate_release(self, new_len) ==
    IF ~is_char_boundary(self.bytes, new_len) THEN {Panic(self)}
    ELSE IF self.heap
        THEN {Done(Heap(SubSeq(self.bytes, 1, new_len), new_len))}
        ELSE {Done(Sso(SubSeq(self.bytes, 1, new_len % 256)))}

\* truncate that sets the length before it asserts the boundary
truncate_set_len_first(self, new_len) ==
    IF ~is_char_boundary(self.bytes, new_len)
        THEN {Panic([self EXCEPT !.bytes = IF new_len < len(self)
                                               THEN SubSeq(self.bytes, 1, new_len)
                                               ELSE self.bytes])}
    ELSE IF self.heap
        THEN {Done(Heap(SubSeq(self.bytes, 1, new_len), self.cap))}
        ELSE {Done(Sso(SubSeq(self.bytes, 1, new_len % 256)))}

\* String::truncate: the assertion comes first, set_len second
truncate(self, new_len) ==
    IF ~is_char_boundary(self.bytes, new_len) THEN {Panic(self)}
    ELSE IF self.heap
        THEN {Done(Heap(SubSeq(self.bytes, 1, new_len), self.cap))}
        ELSE {Done(Sso(SubSeq(self.bytes, 1, new_len % 256)))}

\* pop that shortens the length by one byte whatever the character
pop_byte(self) ==
    IF chars(self.bytes) = <<>> THEN {Done(self)}
    ELSE LET cs == chars(self.bytes)
             result == cs[Len(cs)]
             new_len == len(self) - 1
         IN IF self.heap
                THEN {Returned(Heap(SubSeq(self.bytes, 1, new_len), self.cap), result)}
                ELSE {Returned(Sso(SubSeq(self.bytes, 1, new_len)), result)}

\* String::pop
pop(self) ==
    IF chars(self.bytes) = <<>> THEN {Done(self)}
    ELSE LET cs == chars(self.bytes)
             result == cs[Len(cs)]
             new_len == len(self) - len_utf8(result)
         IN IF self.heap
                THEN {Returned(Heap(SubSeq(self.bytes, 1, new_len), self.cap), result)}
                ELSE {Returned(Sso(SubSeq(self.bytes, 1, new_len)), result)}

\* bytes an overrunning write may leave behind the inline buffer
OverrunBytes == {0, 128}

\* StrBuf::push_str_unchecked: appends without a check; a string longer than
\* the remaining room writes past the buffer (undefined behaviour): the
\* length field then exceeds the capacity and the bytes read back past the
\* buffer are whatever the overrun left there
push_str_unchecked(sso, string) ==
    LET all == sso.bytes \o string
    IN IF Len(string) <= remaining(sso) THEN {Done(Sso(all))}
       ELSE {Undefined(Sso(all))} \cup
            {Undefined(Sso(SubSeq(all, 1, SSO_MAX_SIZE) \o g)) :
                g \in [1..(Len(all) - SSO_MAX_SIZE) -> OverrunBytes]}

\* MiniVec::extend_from_slice: grows the buffer when the bytes do not fit
extend_from_slice(heap, bytes) ==
    LET required == Len(heap.bytes) + Len(bytes)
    IN IF required <= heap.cap
           THEN {Heap(heap.bytes \o bytes, heap.cap)}
           ELSE {Heap(heap.bytes \o bytes, c) : c \in AllocCaps(required)}

\* String::push_str
push_str(self, string) ==
    IF self.heap THEN {Done(h) : h \in extend_from_slice(self, string)}
    ELSE IF remaining(self) < len(self)
        THEN {Done(h) : h \in UNION {extend_from_slice(p, string) :
                  p \in assert_heap_from_sso(self, len(self) + Len(string))}}
        ELSE push_str_unchecked(self, string)

\* String::push
push(self, ch) == push_str(self, encode_utf8(ch))

\* push(ch) immediately followed by pop(): the pop runs on what the push left
push_pop(self, ch) ==
    UNION {IF o.ub THEN {o} ELSE pop(o.val) : o \in push(self, ch)}

(* ------------------------ comparison and hashing ----------------------- *)
\* String::as_str: the content bytes seen as a str
as_str(self) == as_bytes(self)

\* Ord for str: bytewise lexicographic order, -1 less, 0 equal, 1 greater
RECURSIVE str_cmp(_, _)
str_cmp(x, y) ==
    IF x = <<>> /\ y = <<>> THEN 0
    ELSE IF x = <<>> THEN -1
    ELSE IF y = <<>> THEN 1
    ELSE IF x[1] < y[1] THEN -1
    ELSE IF x[1] > y[1] THEN 1
    ELSE str_cmp(Tail(x), Tail(y))

\* equality that compares the two enum values field by field
eq_derived(self, other) == self = other

\* PartialEq for String
eq(self, other) == as_str(self) = as_str(other)

\* Ord / PartialOrd for String
cmp(self, other) == str_cmp(as_str(self), as_str(other))

\* Hash for String: what the hasher is fed, the bytes of the str and the
\* 0xff that ends a str
hash(self) == as_str(self) \o <<255>>

(* ------------------------------ Drain ---------------------------------- *)
\* a Drain: the range [start, end), the two cursors of its Chars iterator
\* and, for the record, the characters each end has yielded so far
NoDrain ==
    [active |-> FALSE, start |-> 0, end |-> 0, front |-> 0, back |-> 0,
     taken_front |-> <<>>, taken_back |-> <<>>]

\* String::drain(start..end): the range is checked, then the iterator over
\* the characters of the range is handed out
drain_new(self, start, end) ==
    IF start <= end /\ end <= len(self)
       /\ is_char_boundary(self.bytes, start) /\ is_char_boundary(self.bytes, end)
        THEN [panic |-> FALSE,
              drain |-> [active |-> TRUE, start |-> start, end |-> end,
                         front |-> start, back |-> end,
                         taken_front |-> <<>>, taken_back |-> <<>>]]
        ELSE [panic |-> TRUE, drain |-> NoDrain]

\* Drain::next: Chars::next on the part of the range not yet yielded
drain_next(self, d) ==
    IF d.front = d.back THEN [some |-> FALSE, ch |-> 0, drain |-> d]
    ELSE LET w == utf8_char_width(self.bytes[d.front + 1])
             c == DecodeAt(self.bytes, d.front + 1, w)
         IN [some |-> TRUE, ch |-> c,
             drain |-> [d EXCEPT !.front = d.front + w,
                                 !.taken_front = Append(d.taken_front, c)]]

\* the offset of the lead byte of the character that ends before offset e
RECURSIVE LeadBefore(_, _)
LeadBefore(bytes, e) ==
    IF IsCont(bytes[e]) /\ e > 1 THEN LeadBefore(bytes, e - 1) ELSE e - 1

\* next_back that hands out the last character without stepping over it
drain_next_back_peek(self, d) ==
    IF d.front = d.back THEN [some |-> FALSE, ch |-> 0, drain |-> d]
    ELSE LET s == LeadBefore(self.bytes, d.back)
             c == DecodeAt(self.bytes, s + 1, d.back - s)
         IN [some |-> TRUE, ch |-> c,
             drain |-> [d EXCEPT !.taken_back = Append(d.taken_back, c)]]

\* Drain::next_back: Chars::next_back
drain_next_back(self, d) ==
    IF d.front = d.back THEN [some |-> FALSE, ch |-> 0, drain |-> d]
    ELSE LET s == LeadBefore(self.bytes, d.back)
             c == DecodeAt(self.bytes, s + 1, d.back - s)
         IN [some |-> TRUE, ch |-> c,
             drain |-> [d EXCEPT !.back = s,
                                 !.taken_back = Append(d.taken_back, c)]]

\* ptr::copy(buf + src, buf + dst, count) on a byte buffer (0-based offsets)
ptr_copy(buf, src, dst, count) ==
    [i \in 1..Len(buf) |->
        IF i - 1 >= dst /\ i - 1 < dst + count THEN buf[i - dst + src] ELSE buf[i]]

\* Drop for Drain that shortens the length without moving the tail
drain_drop_no_copy(self, d) ==
    LET range_size == d.end - d.start
        kept == SubSeq(self.bytes, 1, len(self) - range_size)
    IN IF self.heap THEN Heap(kept, self.cap) ELSE Sso(kept)

\* Drop for Drain: moves the tail over the range, then shortens the length
drain_drop(self, d) ==
    LET range_size == d.end - d.start
        moved == ptr_copy(self.bytes, d.end, d.start, len(self) - d.start - range_size)
        kept == SubSeq(moved, 1, len(self) - range_size)
    IN IF self.heap THEN Heap(kept, self.cap) ELSE Sso(kept)

(* ------------------- insertion and removal by index -------------------- *)
\* the buffer with room for `required` bytes: an inline value is promoted
\* when the inline capacity is exceeded, a heap buffer grows when it is full
with_room(self, required) ==
    IF required <= capacity(self) THEN {self}
    ELSE IF ~self.heap THEN assert_heap_from_sso(self, required)
    ELSE {Heap(self.bytes, c) : c \in AllocCaps(required)}

\* insert_str that writes the string behind the content
insert_str_at_end(self, idx, string) ==
    IF ~is_char_boundary(self.bytes, idx) THEN {Panic(self)}
    ELSE {Done([b EXCEPT !.bytes = self.bytes \o string]) :
              b \in with_room(self, len(self) + Len(string))}

\* String::insert_str: panics unless idx is a char boundary within the
\* content; makes room, moves the bytes from idx on to the right by
\* string.len() and copies the string into the gap
insert_str(self, idx, string) ==
    IF ~is_char_boundary(self.bytes, idx) THEN {Panic(self)}
    ELSE LET wide == self.bytes \o string
             moved == ptr_copy(wide, idx, idx + Len(string), len(self) - idx)
             filled == [i \in 1..Len(wide) |->
                           IF i - 1 >= idx /\ i - 1 < idx + Len(string)
                               THEN string[i - idx] ELSE moved[i]]
         IN {Done([b EXCEPT !.bytes = filled]) :
                 b \in with_room(self, len(self) + Len(string))}

\* String::remove_range(start..end): panics unless start <= end and both are
\* char boundaries within the content; moves the tail left over the range
\* and shortens the length
remove_range(self, start, end) ==
    IF ~(start <= end /\ is_char_boundary(self.bytes, start)
         /\ is_char_boundary(self.bytes, end))
        THEN {Panic(self)}
    ELSE LET moved == ptr_copy(self.bytes, end, start, len(self) - end)
         IN {Done([self EXCEPT !.bytes = SubSeq(moved, 1, len(self) - (end - start))])}

\* insert_str(idx, a) immediately followed by remove_range(idx..idx + a.len())
insert_remove(self, idx, a) ==
    UNION {IF o.panic THEN {o} ELSE remove_range(o.val, idx, idx + Len(a)) :
               o \in insert_str(self, idx, a)}

\* remove that takes out the first byte of the character only
remove_byte(self, idx) ==
    IF idx >= len(self) \/ ~is_char_boundary(self.bytes, idx) THEN {Panic(self)}
    ELSE LET w == utf8_char_width(self.bytes[idx + 1])
             ch == DecodeAt(self.bytes, idx + 1, w)
             moved == ptr_copy(self.bytes, idx + 1, idx, len(self) - idx - 1)
         IN {Returned([self EXCEPT !.bytes = SubSeq(moved, 1, len(self) - 1)], ch)}

\* String::remove: panics when idx is not on a boundary or not below the
\* length; reads the character at idx, moves the bytes behind it left by
\* its length and shortens the length
remove(self, idx) ==
    IF idx >= len(self) \/ ~is_char_boundary(self.bytes, idx) THEN {Panic(self)}
    ELSE LET w == utf8_char_width(self.bytes[idx + 1])
             ch == DecodeAt(self.bytes, idx + 1, w)
             moved == ptr_copy(self.bytes, idx + w, idx, len(self) - idx - w)
         IN {Returned([self EXCEPT !.bytes = SubSeq(moved, 1, len(self) - w)], ch)}

(* ------------------------------- retain -------------------------------- *)
\* the scan of retain keeps: the buffer, the offset idx of the next
\* character, the bytes dropped so far, the characters the predicate has
\* been called with, and whether the predicate aborted
RetainStart(self) ==
    [buf |-> self.bytes, idx |-> 0, del_bytes |-> 0, calls |-> <<>>, panic |-> FALSE]

\* a kept character that stays where it is
retain_keep_in_place(st, w) == [st EXCEPT !.idx = st.idx + w]

\* a kept character is moved left over the bytes dropped before it
retain_keep(st, w) ==
    [st EXCEPT !.buf = ptr_copy(st.buf, st.idx, st.idx - st.del_bytes, w),
               !.idx = st.idx + w]

\* a dropped character adds its length to the running count
retain_drop(st, w) == [st EXCEPT !.del_bytes = st.del_bytes + w, !.idx = st.idx + w]

\* the single pass of retain: the predicate `keep` (the set of characters it
\* accepts) is called with one character after the other; `abort` is the
\* number of the call in which the predicate aborts, 0 when it never does
RECURSIVE retain_scan(_, _, _)
retain_scan(st, keep, abort) ==
    IF st.idx >= Len(st.buf) THEN st
    ELSE LET w == utf8_char_width(st.buf[st.idx + 1])
             ch == DecodeAt(st.buf, st.idx + 1, w)
             called == [st EXCEPT !.calls = Append(st.calls, ch)]
         IN IF Len(called.calls) = abort THEN [called EXCEPT !.panic = TRUE]
            ELSE IF ch \in keep THEN retain_scan(retain_keep(called, w), keep, abort)
            ELSE retain_scan(retain_drop(called, w), keep, abort)

\* a guard that fixes the length only when the scan has come to its end
retain_guard_forget(self, st) ==
    [self EXCEPT !.bytes = IF st.panic THEN st.buf
                           ELSE SubSeq(st.buf, 1, st.idx - st.del_bytes)]

\* the guard of retain, run on every way out of the scan: the length is set
\* to the bytes scanned less the bytes dropped
retain_guard(self, st) ==
    [self EXCEPT !.bytes = SubSeq(st.buf, 1, st.idx - st.del_bytes)]

\* String::retain
retain(self, keep, abort) ==
    LET st == retain_scan(RetainStart(self), keep, abort)
    IN [val |-> retain_guard(self, st), panic |-> st.panic, calls |-> st.calls]

(* ------------------------ ranges given by bounds ----------------------- *)
\* core::ops::Bound
Included(i) == [kind |-> "Included", at |-> i]
Excluded(i) == [kind |-> "Excluded", at |-> i]
Unbounded == [kind |-> "Unbounded", at |-> 0]

\* the bounds a caller can write for a value of n bytes
Bounds(n) == {Included(i) : i \in 0..n} \cup {Excluded(i) : i \in 0..n} \cup {Unbounded}

\* the first offset of the range
range_start(lo) ==
    CASE lo.kind = "Included" -> lo.at
      [] lo.kind = "Excluded" -> lo.at + 1
      [] OTHER -> 0

\* the end of a range that takes an included end bound for an excluded one
range_end_excluded(hi, n) ==
    CASE hi.kind = "Unbounded" -> n
      [] OTHER -> hi.at

\* the offset behind the last byte of the range
range_end(hi, n) ==
    CASE hi.kind = "Included" -> hi.at + 1
      [] hi.kind = "Excluded" -> hi.at
      [] OTHER -> n

\* String::remove_range with a range given by two bounds
remove_range_bounds(self, lo, hi) ==
    remove_range(self, range_start(lo), range_end(hi, len(self)))

\* the strings callers replace a range with
ReplaceInputs == StrsUpTo(MaxReplace)

\* room that is made for all of the string on top of the content
replace_room_for_all(self, removed, added) == with_room(self, len(self) + added)

\* room that promotes an inline value as soon as the inline buffer is full
replace_room_when_full(self, removed, added) ==
    IF removed = added THEN {self}
    ELSE IF ~self.heap /\ len(self) - removed + added >= SSO_MAX_SIZE
        THEN assert_heap_from_sso(self, len(self) - removed + added)
    ELSE with_room(self, len(self) - removed + added)

\* the buffer replace_range writes into: the one the value has when the
\* string is as long as the range; otherwise an inline value is promoted
\* when the new length exceeds the inline capacity and a heap buffer grows
\* when it is too small
replace_room(self, removed, added) ==
    IF removed = added THEN {self}
    ELSE with_room(self, len(self) - removed + added)

\* String::replace_range: panics unless start <= end and both are char
\* boundaries within the content; moves the tail by the difference of the
\* lengths and copies the string into the gap
replace_range(self, lo, hi, string) ==
    LET start == range_start(lo)
        end == range_end(hi, len(self))
    IN IF ~(start <= end /\ is_char_boundary(self.bytes, start)
            /\ is_char_boundary(self.bytes, end))
           THEN {Panic(self)}
       ELSE LET new_len == len(self) - (end - start) + Len(string)
                wide == self.bytes \o [i \in 1..(new_len - len(self)) |-> 0]
                moved == ptr_copy(wide, end, start + Len(string), len(self) - end)
                filled == [i \in 1..Len(wide) |->
                              IF i - 1 >= start /\ i - 1 < start + Len(string)
                                  THEN string[i - start] ELSE moved[i]]
            IN {Done([b EXCEPT !.bytes = SubSeq(filled, 1, new_len)]) :
                    b \in replace_room(self, end - start, Len(string))}

(* ------------------------------- Clone --------------------------------- *)
\* the values a caller clones from: the empty value, a one-character inline
\* value and a heap value one byte over the inline capacity
CloneSources ==
    UNION {new_str(text) :
             text \in StrsUpTo(1) \cup {[i \in 1..(SSO_MAX_SIZE + 1) |-> 97]}}

\* Clone::clone: a heap buffer is copied into a new allocation, an inline
\* buffer is copied as it is
clone(self) ==
    IF self.heap THEN {Heap(self.bytes, c) : c \in AllocCaps(len(self))}
    ELSE {Sso(self.bytes)}

\* clone_from that keeps the allocation of a heap value for every source
clone_from_keep_heap(self, source) ==
    IF self.heap
        THEN {Done(Heap(source.bytes, c)) :
                c \in AllocCaps(len(source)) \cup {c \in {self.cap} : c >= len(source)}}
        ELSE {Done(v) : v \in clone(source)}

\* Clone::clone_from: heap from heap copies into the buffer (which is kept
\* when the content fits); in every other case the value is replaced by a
\* clone of the source
clone_from(self, source) ==
    IF self.heap /\ source.heap
        THEN {Done(Heap(source.bytes, c)) :
                c \in AllocCaps(len(source)) \cup {c \in {self.cap} : c >= len(source)}}
        ELSE {Done(v) : v \in clone(source)}

(* ------------------------------ UTF-16 --------------------------------- *)
\* the UTF-16 units callers decode: 'a', U+00E9, U+5358, and the leading
\* and the trailing surrogate of U+1D11E
Units == {97, 233, 21336, 55348, 56606}

is_leading_surrogate(u) == u >= 55296 /\ u <= 56319
is_trailing_surrogate(u) == u >= 56320 /\ u <= 57343

\* the fewest bytes a unit adds to the decoded string: a surrogate is half
\* of a four-byte character or gives way to a three-byte U+FFFD
UnitWeight(u) ==
    IF is_leading_surrogate(u) \/ is_trailing_surrogate(u) THEN 2 ELSE len_utf8(u)

RECURSIVE UnitsOfWeight(_)
UnitsOfWeight(n) ==
    IF n = 0 THEN {<<>>}
    ELSE UNION {{Append(s, u) : s \in UnitsOfWeight(n - UnitWeight(u))} :
                  u \in {u \in Units : UnitWeight(u) <= n}}

\* every sequence of units that can decode to at most MaxLen bytes
Utf16Inputs == UNION {UnitsOfWeight(n) : n \in 0..MaxLen}

\* char::REPLACEMENT_CHARACTER
REPLACEMENT_CHARACTER == 65533

\* char::decode_utf16: one item per character or unpaired surrogate; a
\* leading surrogate takes the next unit with it only when that is a
\* trailing surrogate
RECURSIVE decode_utf16(_)
decode_utf16(units) ==
    IF units = <<>> THEN <<>>
    ELSE LET u == Head(units)
         IN IF ~is_leading_surrogate(u) /\ ~is_trailing_surrogate(u)
                THEN <<[ok |-> TRUE, ch |-> u]>> \o decode_utf16(Tail(units))
            ELSE IF is_trailing_surrogate(u) \/ Len(units) = 1
                     \/ ~is_trailing_surrogate(units[2])
                THEN <<[ok |-> FALSE, ch |-> u]>> \o decode_utf16(Tail(units))
            ELSE <<[ok |-> TRUE,
                    ch |-> 65536 + (u - 55296) * 1024 + (units[2] - 56320)]>>
                     \o decode_utf16(Tail(Tail(units)))

\* the bytes the characters of a decoded sequence take, U+FFFD for an
\* unpaired surrogate
RECURSIVE decoded_len(_)
decoded_len(items) ==
    IF items = <<>> THEN 0
    ELSE (IF Head(items).ok THEN len_utf8(Head(items).ch)
          ELSE len_utf8(REPLACEMENT_CHARACTER)) + decoded_len(Tail(items))

\* what a decoding constructor returns: Ok(val) or Err, or the undefined
\* behaviour a push ran into
Decoded(ok, val, ub) == [ok |-> ok, val |-> val, ub |-> ub]

\* the loop of from_utf16: res.push(ch?) for each item
RECURSIVE from_utf16_loop(_, _)
from_utf16_loop(res, items) ==
    IF items = <<>> THEN {Decoded(TRUE, res, FALSE)}
    ELSE IF ~Head(items).ok THEN {Decoded(FALSE, res, FALSE)}
    ELSE UNION {IF o.ub THEN {Decoded(TRUE, o.val, TRUE)}
                ELSE from_utf16_loop(o.val, Tail(items)) :
                    o \in push(res, Head(items).ch)}

\* String::from_utf16
from_utf16(utf16) ==
    UNION {from_utf16_loop(res, decode_utf16(utf16)) : res \in with_capacity(Len(utf16))}

\* the loop of from_utf16_lossy: res.push(ch.unwrap_or(REPLACEMENT_CHARACTER))
RECURSIVE from_utf16_lossy_loop(_, _)
from_utf16_lossy_loop(res, items) ==
    IF items = <<>> THEN {Decoded(TRUE, res, FALSE)}
    ELSE LET ch == IF Head(items).ok THEN Head(items).ch ELSE REPLACEMENT_CHARACTER
         IN UNION {IF o.ub THEN {Decoded(TRUE, o.val, TRUE)}
                   ELSE from_utf16_lossy_loop(o.val, Tail(items)) :
                       o \in push(res, ch)}

\* String::from_utf16_lossy
from_utf16_lossy(utf16) ==
    UNION {from_utf16_lossy_loop(res, decode_utf16(utf16)) :
             res \in with_capacity(Len(utf16))}

(* ------------------------------ StrExt --------------------------------- *)
\* a usize of the target in two halves: hi * Half + lo
Half == 2 ^ (WordSize * 4)
usize(hi, lo) == [hi |-> hi, lo |-> lo]

\* the repeat counts callers use: the small ones, half the range of usize,
\* and usize::MAX
Times ==
    {usize(0, t) : t \in 0..MaxLen} \cup {usize(Half \div 2, 0), usize(Half - 1, Half - 1)}

\* usize::wrapping_mul of a length and a usize
wrapping_mul(a, b) ==
    LET low == a * b.lo
        high == a * b.hi + low \div Half
    IN [some |-> TRUE, hi |-> high % Half, lo |-> low % Half]

\* usize::checked_mul of a length and a usize: none when the product does
\* not fit the word
checked_mul(a, b) ==
    LET low == a * b.lo
        high == a * b.hi + low \div Half
    IN IF high >= Half THEN [some |-> FALSE, hi |-> 0, lo |-> 0]
       ELSE [some |-> TRUE, hi |-> high, lo |-> low % Half]

\* the copies of repeat: `times` times the bytes of the string, one behind
\* the other
RECURSIVE copies(_, _)
copies(string, times) ==
    IF times = 0 THEN <<>> ELSE copies(string, times - 1) \o string

\* StrExt::repeat for a result the model can hold (required <= MaxLen):
\* panics when len * times overflows; an empty result is String::new();
\* otherwise the copies are written into String::with_capacity(required)
\* and the length is set
repeat(string, times) ==
    LET required == checked_mul(Len(string), times)
    IN IF ~required.some THEN {Panic(new)}
       ELSE IF required.hi > 0 \/ required.lo > 0
           THEN {Done([result EXCEPT !.bytes = copies(string, times.lo)]) :
                    result \in with_capacity(required.lo)}
       ELSE {Done(new)}

(* --------------------------- state machine ----------------------------- *)
VARIABLES
    str,    \* the String value
    prev,   \* the value before the last call
    op,     \* the last call: its name and arguments
    ret,    \* what the last call returned: a panic, a character or nothing
    ub,     \* the last call ran into undefined behaviour
    drain   \* the Drain that borrows the value, if any

vars == <<str, prev, op, ret, ub, drain>>

Call(name, s, n, m) == [name |-> name, s |-> s, n |-> n, m |-> m]

\* a value is constructed with String::new_str (String::new for "") or
\* with String::with_capacity
Init ==
    /\ \/ \E text \in InitInputs : \E v \in new_str(text) :
            /\ str = v
            /\ op = Call("new_str", text, 0, 0)
       \/ \E n \in 0..MaxCap : \E v \in with_capacity(n) :
            /\ str = v
            /\ op = Call("with_capacity", <<>>, n, 0)
    /\ prev = new
    /\ ret = [panic |-> FALSE, some |-> FALSE, ch |-> 0]
    /\ ub = FALSE
    /\ drain = NoDrain

\* the owner can be used: no undefined behaviour so far, no Drain borrows it
Free == ~ub /\ ~drain.active

\* the call `name` ends with outcome o
Apply(o, name, s, n, m) ==
    /\ str' = o.val
    /\ prev' = str
    /\ op' = Call(name, s, n, m)
    /\ ret' = [panic |-> o.panic, some |-> o.some, ch |-> o.ch]
    /\ ub' = o.ub
    /\ drain' = NoDrain

PushStr ==
    /\ Free
    /\ \E s \in PushInputs :
        /\ len(str) + Len(s) <= MaxLen
        /\ \E o \in push_str(str, s) : Apply(o, "push_str", s, 0, 0)

Push ==
    /\ Free
    /\ \E c \in Chars :
        /\ len(str) + len_utf8(c) <= MaxLen
        /\ \E o \in push(str, c) : Apply(o, "push", encode_utf8(c), c, 0)

PushPop ==
    /\ Free
    /\ \E c \in Chars :
        /\ len(str) + len_utf8(c) <= MaxLen
        /\ \E o \in push_pop(str, c) : Apply(o, "push_pop", encode_utf8(c), c, 0)

Pop == Free /\ \E o \in pop(str) : Apply(o, "pop", <<>>, 0, 0)

Truncate ==
    /\ Free
    /\ \E n \in 0..(MaxLen + 1) : \E o \in truncate(str, n) : Apply(o, "truncate", <<>>, n, 0)

Clear == Free /\ \E o \in clear(str) : Apply(o, "clear", <<>>, 0, 0)

Reserve ==
    /\ Free
    /\ \E n \in 0..MaxCap :
        /\ len(str) + n <= MaxCap
        /\ \E o \in reserve(str, n) : Apply(o, "reserve", <<>>, n, 0)

ReserveExact ==
    /\ Free
    /\ \E n \in 0..MaxCap :
        /\ len(str) + n <= MaxCap
        /\ \E o \in reserve_exact(str, n) : Apply(o, "reserve_exact", <<>>, n, 0)

ShrinkToFit == Free /\ \E o \in shrink_to_fit(str) : Apply(o, "shrink_to_fit", <<>>, 0, 0)

InsertRemove ==
    /\ Free
    /\ \E idx \in 0..(len(str) + 1) : \E a \in InsertInputs :
        /\ len(str) + Len(a) <= MaxLen
        /\ \E o \in insert_remove(str, idx, a) : Apply(o, "insert_remove", a, idx, 0)

Remove ==
    /\ Free
    /\ \E idx \in 0..MaxLen : \E o \in remove(str, idx) : Apply(o, "remove", <<>>, idx, 0)

DrainNew ==
    /\ Free
    /\ \E s \in 0..(len(str) + 1), e \in 0..(len(str) + 1) :
        LET r == drain_new(str, s, e)
        IN /\ drain' = r.drain
           /\ prev' = str
           /\ op' = Call("drain", <<>>, s, e)
           /\ ret' = [panic |-> r.panic, some |-> FALSE, ch |-> 0]
           /\ UNCHANGED <<str, ub>>

\* next that applies the removal as soon as the iterator has run out
DrainNextEager ==
    /\ ~ub /\ drain.active
    /\ LET r == drain_next(str, drain)
       IN /\ drain' = r.drain
          /\ prev' = str
          /\ op' = Call("next", <<>>, drain.start, drain.end)
          /\ ret' = [panic |-> FALSE, some |-> r.some, ch |-> r.ch]
          /\ str' = IF r.some THEN str ELSE drain_drop(str, drain)
          /\ UNCHANGED ub

DrainNext ==
    /\ ~ub /\ drain.active
    /\ LET r == drain_next(str, drain)
       IN /\ drain' = r.drain
          /\ prev' = str
          /\ op' = Call("next", <<>>, drain.start, drain.end)
          /\ ret' = [panic |-> FALSE, some |-> r.some, ch |-> r.ch]
          /\ UNCHANGED <<str, ub>>

DrainNextBack ==
    /\ ~ub /\ drain.active
    /\ LET r == drain_next_back(str, drain)
       IN /\ drain' = r.drain
          /\ prev' = str
          /\ op' = Call("next_back", <<>>, drain.start, drain.end)
          /\ ret' = [panic |-> FALSE, some |-> r.some, ch |-> r.ch]
          /\ UNCHANGED <<str, ub>>

DrainDrop ==
    /\ ~ub /\ drain.active
    /\ str' = drain_drop(str, drain)
    /\ prev' = str
    /\ op' = Call("drain_drop", <<>>, drain.start, drain.end)
    /\ ret' = [panic |-> FALSE, some |-> FALSE, ch |-> 0]
    /\ drain' = [drain EXCEPT !.active = FALSE]
    /\ UNCHANGED ub

\* self.clone_from(&source): op.n tells whether the source is heap, op.m its
\* capacity
CloneFrom ==
    /\ Free
    /\ \E source \in CloneSources : \E o \in clone_from(str, source) :
        Apply(o, "clone_from", source.bytes, IF source.heap THEN 1 ELSE 0, capacity(source))

Next ==
    \/ PushStr
    \/ Push
    \/ Pop
    \/ PushPop
    \/ Truncate
    \/ Clear
    \/ Reserve
    \/ ReserveExact
    \/ ShrinkToFit
    \/ InsertRemove
    \/ Remove
    \/ DrainNew
    \/ DrainNext
    \/ DrainNextBack
    \/ DrainDrop
    \/ CloneFrom

Spec == Init /\ [][Next]_vars

(* ----------------------- editing a settled value ----------------------- *)
\* what retain, remove_range and replace_range do depends on the value and
\* on their arguments only: they are applied to every value that has been
\* constructed, truncated or shrunk, and the value they leave is edited
\* again once it has gone through one of these
Settled ==
    /\ Free
    /\ ~ret.panic
    /\ op.name \in {"new_str", "with_capacity", "truncate", "shrink_to_fit"}

\* self.retain(predicate): op.s is the characters the predicate was called
\* with, op.n the characters it accepts, op.m the call in which it aborts
Retain ==
    /\ Settled
    /\ \E keep \in SUBSET Chars : \E abort \in 0..Len(chars(str.bytes)) :
        LET r == retain(str, keep, abort)
        IN /\ str' = r.val
           /\ prev' = str
           /\ op' = Call("retain", r.calls, keep, abort)
           /\ ret' = [panic |-> r.panic, some |-> FALSE, ch |-> 0]
           /\ drain' = NoDrain
           /\ UNCHANGED ub

\* self.remove_range((lo, hi)): op.n and op.m are the two bounds
RemoveRange ==
    /\ Settled
    /\ \E lo \in Bounds(len(str)), hi \in Bounds(len(str)) :
        \E o \in remove_range_bounds(str, lo, hi) : Apply(o, "remove_range", <<>>, lo, hi)

\* self.replace_range((lo, hi), s)
ReplaceRange ==
    /\ Settled
    /\ \E lo \in Bounds(len(str)), hi \in Bounds(len(str)), s \in ReplaceInputs :
        \E o \in replace_range(str, lo, hi, s) :
            /\ len(o.val) <= MaxLen
            /\ Apply(o, "replace_range", s, lo, hi)

NextEdit ==
    \/ Truncate
    \/ ShrinkToFit
    \/ Retain
    \/ RemoveRange
    \/ ReplaceRange

SpecEdit == Init /\ [][NextEdit]_vars

(* ------------------- values built from outside data -------------------- *)
\* the program starts with String::new()
InitBuild ==
    /\ str = new
    /\ prev = new
    /\ op = Call("new", <<>>, 0, 0)
    /\ ret = [panic |-> FALSE, some |-> FALSE, ch |-> 0]
    /\ ub = FALSE
    /\ drain = NoDrain

\* a decoding constructor has returned r: ret.some tells Ok from Err, and
\* the value is the one returned (on Err none is, and str stays)
Built(r, name, utf16) ==
    /\ str' = IF r.ok THEN r.val ELSE str
    /\ prev' = str
    /\ op' = Call(name, utf16, 0, 0)
    /\ ret' = [panic |-> FALSE, some |-> r.ok, ch |-> 0]
    /\ ub' = r.ub
    /\ drain' = NoDrain

FromUtf16 ==
    /\ Free /\ op.name = "new"
    /\ \E utf16 \in Utf16Inputs :
        /\ decoded_len(decode_utf16(utf16)) <= MaxLen
        /\ \E r \in from_utf16(utf16) : Built(r, "from_utf16", utf16)

FromUtf16Lossy ==
    /\ Free /\ op.name = "new"
    /\ \E utf16 \in Utf16Inputs :
        /\ decoded_len(decode_utf16(utf16)) <= MaxLen
        /\ \E r \in from_utf16_lossy(utf16) : Built(r, "from_utf16_lossy", utf16)

\* StrExt::repeat(s, times): op.n is times; a panic returns no value
Repeat ==
    /\ Free /\ op.name = "new"
    /\ \E s \in InsertInputs, times \in Times :
        /\ LET required == checked_mul(Len(s), times)
           IN required.some => (required.hi = 0 /\ required.lo <= MaxLen)
        /\ \E o \in repeat(s, times) :
             Apply([o EXCEPT !.val = IF o.panic THEN str ELSE o.val], "repeat", s, times, 0)

NextBuild ==
    \/ FromUtf16
    \/ FromUtf16Lossy
    \/ Repeat

SpecBuild == InitBuild /\ [][NextBuild]_vars

TypeOK ==
    /\ str.heap \in BOOLEAN
    /\ ub \in BOOLEAN
    /\ Len(str.bytes) <= MaxLen

(* ------------------------------ claims --------------------------------- *)
\* the last call was an append
Appended == op.name \in {"push_str", "push"}

\* index splits bytes between two characters: both sides are whole strings
OnBoundary(bytes, index) ==
    /\ index <= Len(bytes)
    /\ IsUtf8(SubSeq(bytes, 1, index))
    /\ IsUtf8(SubSeq(bytes, index + 1, Len(bytes)))

\* C1: String::new_str(s) holds exactly the bytes of s, its length is
\* s.len(), and it is heap if and only if s.len() exceeds the inline
\* capacity 2 * wordsize - 2.
C1_NewStrHoldsText ==
    op.name = "new_str" =>
        /\ as_bytes(str) = op.s
        /\ len(str) = Len(op.s)
        /\ (is_heap(str) <=> Len(op.s) > 2 * WordSize - 2)

\* new_str of a text one byte longer than the inline capacity went to the heap
C1_Witness ==
    /\ op.name = "new_str"
    /\ Len(op.s) = 2 * WordSize - 1
    /\ is_heap(str)
    /\ as_bytes(str) = op.s

\* C2: push_str(s) and push(ch) on an inline value promote only when the
\* room left is too small: the value stays inline when len + s.len() is at
\* most the inline capacity and is heap afterwards when it is more.
C2_PromotesOnlyWhenFull ==
    (Appended /\ ~is_heap(prev)) =>
        (is_heap(str) <=> len(prev) + Len(op.s) > SSO_MAX_SIZE)

\* C3: after push_str(s) the content is the previous content followed by s
\* and the length has grown by s.len(), in both representations and across
\* the promotion; push(ch) appends the UTF-8 encoding of ch.
C3_PushAppends ==
    Appended =>
        /\ as_bytes(str) = as_bytes(prev) \o op.s
        /\ len(str) = len(prev) + Len(op.s)
        /\ (op.name = "push" => op.s = encode_utf8(op.n))

\* C4: the content is valid UTF-8 in every reachable state.
C4_AlwaysUtf8 == IsUtf8(as_bytes(str))

\* C5: promotion is monotone: a heap value is still heap after clear,
\* truncate, shrink_to_fit and pop.
C5_HeapStaysHeap ==
    (is_heap(prev) /\ op.name \in {"clear", "truncate", "shrink_to_fit", "pop"}) =>
        is_heap(str)

\* an emptied heap value was shrunk to fit and is still heap
C5_Witness ==
    /\ op.name = "shrink_to_fit"
    /\ is_heap(prev)
    /\ len(prev) = 0
    /\ is_heap(str)
    /\ capacity(str) = 0

\* C6: truncate(new_len) with new_len >= len() is a no-op: no panic, and
\* content, length, capacity and representation stay as they were, for
\* new_len = len() and for every larger new_len.
C6_TruncateBeyondIsNoOp ==
    (op.name = "truncate" /\ op.n >= len(prev)) =>
        /\ ~ret.panic
        /\ str = prev

\* C7: truncate(new_len) with new_len < len() on a char boundary sets the
\* length to new_len, keeps the first new_len bytes, and changes neither
\* the capacity nor the representation.
C7_TruncateShortens ==
    (op.name = "truncate" /\ op.n < len(prev) /\ OnBoundary(as_bytes(prev), op.n)) =>
        /\ ~ret.panic
        /\ len(str) = op.n
        /\ as_bytes(str) = SubSeq(as_bytes(prev), 1, op.n)
        /\ capacity(str) = capacity(prev)
        /\ is_heap(str) = is_heap(prev)

\* a heap value was cut inside its content, with room to spare before
C7_Witness ==
    /\ op.name = "truncate"
    /\ is_heap(prev)
    /\ op.n > 0
    /\ op.n < len(prev)
    /\ len(str) = op.n
    /\ capacity(str) > op.n

\* C8: truncate(new_len) with new_len < len() inside a character panics
\* before it mutates: content, length, capacity and representation are as
\* before the call.
C8_TruncateInsideCharPanics ==
    (op.name = "truncate" /\ op.n < len(prev) /\ ~OnBoundary(as_bytes(prev), op.n)) =>
        /\ ret.panic
        /\ str = prev

\* a truncate that lands inside a multi-byte character panicked
C8_Witness ==
    /\ op.name = "truncate"
    /\ op.n < len(prev)
    /\ ~OnBoundary(as_bytes(prev), op.n)
    /\ ret.panic

\* C9: clear() sets the length to 0, leaves the capacity unchanged and
\* leaves the representation unchanged.
C9_ClearKeepsStorage ==
    op.name = "clear" =>
        /\ len(str) = 0
        /\ is_empty(str)
        /\ capacity(str) = capacity(prev)
        /\ is_heap(str) = is_heap(prev)

\* a non-empty heap value was cleared
C9_Witness ==
    /\ op.name = "clear"
    /\ is_heap(prev)
    /\ len(prev) > 0
    /\ is_heap(str)
    /\ is_empty(str)

\* C10: pop() on a non-empty value returns the last character and shortens
\* the length by that character's UTF-8 length, leaving the bytes before
\* it, the capacity and the representation; on an empty value it returns
\* none and changes nothing.
C10_PopLastChar ==
    op.name = "pop" =>
        IF len(prev) > 0
            THEN /\ ret.some
                 /\ as_bytes(prev) = as_bytes(str) \o encode_utf8(ret.ch)
                 /\ len(str) = len(prev) - len_utf8(ret.ch)
                 /\ capacity(str) = capacity(prev)
                 /\ is_heap(str) = is_heap(prev)
            ELSE /\ ~ret.some
                 /\ str = prev

\* a three-byte character was popped from a heap value
C10_Witness ==
    /\ op.name = "pop"
    /\ ret.some
    /\ len_utf8(ret.ch) = 3
    /\ is_heap(str)
    /\ len(str) = len(prev) - 3

\* C11: push(ch) immediately followed by pop() returns ch and restores the
\* original content, the same bytes and length as before the push, whatever
\* representation the value ends in.
C11_PushPopRestores ==
    op.name = "push_pop" =>
        /\ ret.some
        /\ ret.ch = op.n
        /\ as_bytes(str) = as_bytes(prev)
        /\ len(str) = len(prev)

\* the last call was a reservation
Reserved == op.name \in {"reserve", "reserve_exact"}

\* C12: with_capacity(n) returns an empty value, inline with the inline
\* capacity when n is at most the inline capacity, heap with a capacity of
\* at least n when n is more.
C12_WithCapacity ==
    op.name = "with_capacity" =>
        /\ is_empty(str)
        /\ IF op.n <= 2 * WordSize - 2
               THEN ~is_heap(str) /\ capacity(str) = 2 * WordSize - 2
               ELSE is_heap(str) /\ capacity(str) >= op.n

\* with_capacity of one more than the inline capacity gave a heap value
C12_Witness ==
    /\ op.name = "with_capacity"
    /\ op.n = 2 * WordSize - 1
    /\ is_heap(str)
    /\ is_empty(str)

\* C13: reserve(additional) and reserve_exact(additional) change nothing
\* when len + additional is at most the capacity; an inline value is
\* promoted exactly when len + additional exceeds the inline capacity.
C13_ReserveOnlyWhenNeeded ==
    Reserved =>
        /\ (len(prev) + op.n <= capacity(prev) => str = prev)
        /\ (~is_heap(prev) => (is_heap(str) <=> len(prev) + op.n > SSO_MAX_SIZE))

\* a non-empty inline value kept its buffer on a reservation that fits it
\* exactly
C13_Witness ==
    /\ Reserved
    /\ ~is_heap(prev)
    /\ len(prev) > 0
    /\ op.n > 0
    /\ len(prev) + op.n = SSO_MAX_SIZE
    /\ str = prev

\* C14: after reserve(additional) or reserve_exact(additional) the
\* capacity is at least len + additional and content and length are as
\* before, also when the call promotes an inline value.
C14_ReserveKeepsContent ==
    Reserved =>
        /\ capacity(str) >= len(prev) + op.n
        /\ as_bytes(str) = as_bytes(prev)
        /\ len(str) = len(prev)

\* a reservation promoted a non-empty inline value
C14_Witness ==
    /\ Reserved
    /\ ~is_heap(prev)
    /\ len(prev) > 0
    /\ is_heap(str)
    /\ as_bytes(str) = as_bytes(prev)

\* C15: shrink_to_fit() does nothing to an inline value; a heap value
\* keeps content and length, stays heap, and its capacity becomes len().
C15_ShrinkToFit ==
    op.name = "shrink_to_fit" =>
        IF ~is_heap(prev)
            THEN str = prev
            ELSE /\ as_bytes(str) = as_bytes(prev)
                 /\ len(str) = len(prev)
                 /\ is_heap(str)
                 /\ capacity(str) = len(str)

\* a heap value with spare capacity was shrunk to its content
C15_Witness ==
    /\ op.name = "shrink_to_fit"
    /\ is_heap(prev)
    /\ len(prev) > 0
    /\ capacity(prev) > len(prev)
    /\ capacity(str) = len(prev)

\* values to order the two compared values against
Thirds == UNION {new_str(s) : s \in StrsUpTo(2)} \cup new_str(<<97, 97, 97, 97, 97, 97, 97>>)

\* C16: equality, ordering and hashing depend only on the content: two
\* values with identical bytes, inline or heap, compare equal, order the
\* same against any third value and feed the same data to a hasher; two
\* values are equal if and only if their contents are.  Checked on the
\* value before and the value after every call.
C16_CompareByContent ==
    /\ eq(prev, str) <=> as_bytes(prev) = as_bytes(str)
    /\ as_bytes(prev) = as_bytes(str) =>
        /\ hash(prev) = hash(str)
        /\ cmp(prev, str) = 0
        /\ \A t \in Thirds : cmp(prev, t) = cmp(str, t) /\ cmp(t, prev) = cmp(t, str)

\* an inline value and its promoted heap copy compared equal
C16_Witness ==
    /\ ~is_heap(prev)
    /\ is_heap(str)
    /\ len(str) > 0
    /\ as_bytes(prev) = as_bytes(str)
    /\ eq(prev, str)
    /\ hash(prev) = hash(str)

Reverse(s) == [i \in 1..Len(s) |-> s[Len(s) + 1 - i]]

\* C17: after a Drain over [start, end) is disposed, fully consumed, partly
\* consumed from either end or not iterated at all, the owner's content is
\* the original content with the bytes [start, end) excised and its length
\* is shorter by end - start, in both representations.
C17_DrainExcises ==
    op.name = "drain_drop" =>
        /\ as_bytes(str) = SubSeq(as_bytes(prev), 1, op.n)
                             \o SubSeq(as_bytes(prev), op.m + 1, len(prev))
        /\ len(str) = len(prev) - (op.m - op.n)

\* a Drain over the middle of a heap value was dropped after one character
\* was taken from each end and at least one was left
C17_Witness ==
    /\ op.name = "drain_drop"
    /\ is_heap(prev)
    /\ op.n > 0
    /\ op.m < len(prev)
    /\ drain.taken_front # <<>>
    /\ drain.taken_back # <<>>
    /\ drain.front < drain.back
    /\ len(str) = len(prev) - (op.m - op.n)

\* what next() has yielded, in order, then what is still to come, then what
\* next_back() has yielded, last first, is the characters of the range; a
\* call returns the next character of its end, and none only when all of
\* them have been yielded
DrainYieldsRange ==
    drain.active =>
        LET range == chars(SubSeq(as_bytes(str), drain.start + 1, drain.end))
            rest == chars(SubSeq(as_bytes(str), drain.front + 1, drain.back))
        IN /\ drain.taken_front \o rest \o Reverse(drain.taken_back) = range
           /\ (op.name = "next" /\ ret.some) =>
                  /\ drain.taken_front # <<>>
                  /\ ret.ch = range[Len(drain.taken_front)]
           /\ (op.name = "next_back" /\ ret.some) =>
                  /\ drain.taken_back # <<>>
                  /\ ret.ch = range[Len(range) + 1 - Len(drain.taken_back)]
           /\ (op.name \in {"next", "next_back"} /\ ~ret.some) =>
                  drain.taken_front \o Reverse(drain.taken_back) = range

\* once the two cursors have met, a further next() or next_back() yields none
DrainStaysEmpty ==
    (drain.active /\ drain.front = drain.back /\ op'.name \in {"next", "next_back"}) =>
        (~ret'.some /\ drain' = drain)

\* C18: drain(range) yields exactly the characters originally at the byte
\* offsets of the range, each once: in order through next(), in reverse
\* order through next_back(), never the same character from both ends; after
\* the last character both return none forever.
C18_DrainYieldsRange == []DrainYieldsRange /\ [][DrainStaysEmpty]_vars

\* a Drain consumed from both ends ran out and returned none
C18_Witness ==
    /\ drain.active
    /\ op.name \in {"next", "next_back"}
    /\ ~ret.some
    /\ Len(drain.taken_front) >= 2
    /\ Len(drain.taken_back) >= 1
    /\ drain.front = drain.back

\* C19: for every value and every boundary-aligned idx <= len(),
\* insert_str(idx, a) immediately followed by
\* remove_range(idx..idx + a.len()) restores the original content, also
\* when the insert promotes the value from inline to heap.
C19_InsertRemoveRestores ==
    (op.name = "insert_remove" /\ OnBoundary(as_bytes(prev), op.n)) =>
        /\ ~ret.panic
        /\ as_bytes(str) = as_bytes(prev)
        /\ len(str) = len(prev)

\* an insert into the middle of an inline value promoted it, and the removal
\* gave the content back
C19_Witness ==
    /\ op.name = "insert_remove"
    /\ ~is_heap(prev)
    /\ is_heap(str)
    /\ op.n > 0
    /\ op.n < len(prev)
    /\ Len(op.s) > 1
    /\ as_bytes(str) = as_bytes(prev)

\* C20: remove(idx) with idx on a char boundary below len() returns the
\* character that starts at idx and leaves the content without that
\* character's bytes; with idx inside a character or not below len() it
\* panics and leaves the value unchanged, in both representations.
C20_Remove ==
    op.name = "remove" =>
        IF op.n < len(prev) /\ OnBoundary(as_bytes(prev), op.n)
            THEN /\ ~ret.panic
                 /\ ret.some
                 /\ as_bytes(prev) = SubSeq(as_bytes(str), 1, op.n)
                                       \o encode_utf8(ret.ch)
                                       \o SubSeq(as_bytes(str), op.n + 1, len(str))
                 /\ len(str) = len(prev) - len_utf8(ret.ch)
                 /\ is_heap(str) = is_heap(prev)
            ELSE /\ ret.panic
                 /\ str = prev

\* a multi-byte character was removed from the middle of a heap value
C20_Witness ==
    /\ op.name = "remove"
    /\ is_heap(prev)
    /\ ret.some
    /\ len_utf8(ret.ch) > 1
    /\ op.n > 0
    /\ op.n + len_utf8(ret.ch) < len(prev)

\* C25: an inline value never holds more bytes than the inline capacity: no
\* sequence of push and push_str calls writes past the inline buffer, every
\* append that would exceed the inline capacity promotes first.
C25_InlineWithinCapacity ==
    /\ ~is_heap(str) => len(str) <= SSO_MAX_SIZE
    /\ Appended => ~ub

\* the last call is one of the operations on an existing value
Mutated ==
    op.name \in {"push", "push_str", "pop", "clear", "truncate", "reserve",
                 "reserve_exact", "shrink_to_fit", "drain_drop", "clone_from"}

\* C26 as stated: no operation, clone_from with an inline source included,
\* changes a heap value into an inline value.
C26_NeverDemotes == (Mutated /\ is_heap(prev)) => is_heap(str)

\* C26: push, push_str, pop, clear, truncate, reserve, reserve_exact,
\* shrink_to_fit and Drain disposal leave a heap value heap; clone_from
\* makes the value a copy of the source: heap when the source is heap, and
\* inline when the source is inline, also when the value was heap.
C26_DemotesOnlyByCloneFrom ==
    /\ (Mutated /\ op.name # "clone_from" /\ is_heap(prev)) => is_heap(str)
    /\ op.name = "clone_from" =>
        /\ as_bytes(str) = op.s
        /\ is_heap(str) = (op.n = 1)

\* a heap value took the content of an inline source and is inline
C26_Witness ==
    /\ op.name = "clone_from"
    /\ is_heap(prev)
    /\ len(prev) > SSO_MAX_SIZE
    /\ op.n = 0
    /\ op.s # <<>>
    /\ ~is_heap(str)

\* a call of next() or next_back() leaves the owner as it was; the disposal
\* takes out end - start bytes and keeps capacity and representation
DrainDefers ==
    /\ op.name \in {"next", "next_back"} =>
        /\ as_bytes(str) = as_bytes(prev)
        /\ len(str) = len(prev)
        /\ capacity(str) = capacity(prev)
        /\ is_heap(str) = is_heap(prev)
    /\ op.name = "drain_drop" =>
        /\ len(str) = len(prev) - (op.m - op.n)
        /\ capacity(str) = capacity(prev)
        /\ is_heap(str) = is_heap(prev)

\* as long as the Drain lives the owner does not change, a Drain that has
\* run out included; the disposal is the step that ends the Drain, so it is
\* taken once
DrainDisposedOnce ==
    /\ (drain.active /\ drain'.active) => str' = str
    /\ op'.name = "drain_drop" <=> (drain.active /\ ~drain'.active)

\* C27: while a Drain is active, next() and next_back() leave the owner's
\* bytes, length, capacity and representation unchanged; the removal of
\* [start, end) is applied exactly once, at disposal, and not when the
\* iterator merely runs to exhaustion; disposal changes neither capacity
\* nor representation.
C27_DrainDefersRemoval == []DrainDefers /\ [][DrainDisposedOnce]_vars

\* a Drain over a non-empty range has run out and the owner still holds the
\* bytes of the range
C27_Witness ==
    /\ drain.active
    /\ op.name = "next"
    /\ ~ret.some
    /\ drain.end > drain.start
    /\ drain.taken_front # <<>>
    /\ as_bytes(str) = as_bytes(prev)
    /\ len(str) >= drain.end

\* the bytes of a sequence of characters
RECURSIVE Encoded(_)
Encoded(cs) == IF cs = <<>> THEN <<>> ELSE encode_utf8(Head(cs)) \o Encoded(Tail(cs))

\* the characters of cs a predicate accepts
Kept(cs, keep) == SelectSeq(cs, LAMBDA c : c \in keep)

\* C21: retain with a predicate that accepts every character leaves the
\* content unchanged; with a predicate that rejects every character it
\* leaves an empty value of the same representation; in general the result
\* is the characters the predicate accepts, in their original order.
C21_Retain ==
    (op.name = "retain" /\ ~ret.panic) =>
        /\ as_bytes(str) = Encoded(Kept(chars(as_bytes(prev)), op.n))
        /\ is_heap(str) = is_heap(prev)
        /\ (op.n = Chars) => (as_bytes(str) = as_bytes(prev))
        /\ (op.n = {}) => (len(str) = 0 /\ is_heap(str) = is_heap(prev))

\* a heap value that starts with a multi-byte character lost that character
\* and kept a later one
C21_Witness ==
    /\ op.name = "retain"
    /\ ~ret.panic
    /\ is_heap(prev)
    /\ len(prev) > SSO_MAX_SIZE
    /\ Len(op.s) >= 3
    /\ op.s[1] \notin op.n
    /\ len_utf8(op.s[1]) > 1
    /\ op.s[Len(op.s)] \in op.n
    /\ len(str) > 0
    /\ is_heap(str)

\* the range two bounds stand for, in a value of n bytes
StartOf(lo) ==
    IF lo.kind = "Unbounded" THEN 0
    ELSE IF lo.kind = "Excluded" THEN lo.at + 1 ELSE lo.at
EndOf(hi, n) ==
    IF hi.kind = "Unbounded" THEN n
    ELSE IF hi.kind = "Included" THEN hi.at + 1 ELSE hi.at

\* the last call was given a range that lies in the old content, between
\* characters
ValidRange ==
    /\ StartOf(op.n) <= EndOf(op.m, len(prev))
    /\ OnBoundary(as_bytes(prev), StartOf(op.n))
    /\ OnBoundary(as_bytes(prev), EndOf(op.m, len(prev)))

\* the old content with the string of the last call in the place of its range
Spliced ==
    SubSeq(as_bytes(prev), 1, StartOf(op.n))
        \o op.s \o SubSeq(as_bytes(prev), EndOf(op.m, len(prev)) + 1, len(prev))

RangeLen == EndOf(op.m, len(prev)) - StartOf(op.n)

\* C22: replace_range(range, s) with s as long as the range replaces exactly
\* the bytes of the range with s and changes neither capacity nor length
\* nor representation.
C22_ReplaceSameLength ==
    (op.name = "replace_range" /\ ValidRange /\ Len(op.s) = RangeLen) =>
        /\ ~ret.panic
        /\ as_bytes(str) = Spliced
        /\ len(str) = len(prev)
        /\ capacity(str) = capacity(prev)
        /\ is_heap(str) = is_heap(prev)

\* a two-byte character in the middle of a full inline value was replaced by
\* other bytes
C22_Witness ==
    /\ op.name = "replace_range"
    /\ ~ret.panic
    /\ ~is_heap(prev)
    /\ len(prev) = SSO_MAX_SIZE
    /\ Len(op.s) = 2
    /\ RangeLen = 2
    /\ StartOf(op.n) > 0
    /\ EndOf(op.m, len(prev)) < len(prev)
    /\ as_bytes(str) # as_bytes(prev)
    /\ ~is_heap(str)

\* C28: retain calls the predicate once per character, from left to right;
\* when the predicate aborts, the value holds the characters kept so far,
\* followed by the characters not yet looked at or by nothing: its length
\* never takes in stale bytes or a part of a character.
C28_RetainPanicSafe ==
    op.name = "retain" =>
        LET cs == chars(as_bytes(prev))
            k == Len(op.s)
        IN /\ k <= Len(cs)
           /\ op.s = SubSeq(cs, 1, k)
           /\ ~ret.panic => op.s = cs
           /\ ret.panic =>
                LET kept == Encoded(Kept(SubSeq(cs, 1, k - 1), op.n))
                    rest == Encoded(SubSeq(cs, k, Len(cs)))
                IN /\ k = op.m
                   /\ as_bytes(str) \in {kept, kept \o rest}
                   /\ IsUtf8(as_bytes(str))
                   /\ is_heap(str) = is_heap(prev)
                   /\ capacity(str) = capacity(prev)

\* the predicate aborted in its fourth call or later, after a multi-byte
\* character was dropped and a later character kept, with characters left
C28_Witness ==
    /\ op.name = "retain"
    /\ ret.panic
    /\ Len(op.s) >= 4
    /\ op.s[1] \notin op.n
    /\ len_utf8(op.s[1]) > 1
    /\ op.s[2] \in op.n
    /\ Len(chars(as_bytes(prev))) > Len(op.s)
    /\ len(str) > 0

\* C29: replace_range(range, s) on an inline value, with s not as long as
\* the range, gives prefix + s + suffix and promotes exactly when the new
\* length exceeds the inline capacity.
C29_ReplacePromotes ==
    (op.name = "replace_range" /\ ~is_heap(prev) /\ ValidRange /\ Len(op.s) # RangeLen) =>
        /\ ~ret.panic
        /\ as_bytes(str) = Spliced
        /\ is_heap(str) <=> (len(prev) - RangeLen + Len(op.s) > SSO_MAX_SIZE)

\* a longer string in the place of a character in the middle of an inline
\* value made the content one byte longer than the inline capacity
C29_Witness ==
    /\ op.name = "replace_range"
    /\ ~is_heap(prev)
    /\ ~ret.panic
    /\ RangeLen >= 1
    /\ Len(op.s) > RangeLen
    /\ StartOf(op.n) > 0
    /\ EndOf(op.m, len(prev)) < len(prev)
    /\ len(str) = SSO_MAX_SIZE + 1
    /\ is_heap(str)

\* C30: remove_range and replace_range take included, excluded and unbounded
\* bounds for the half-open range they stand for; a range whose start is
\* behind its end, or with an end of it inside a character or past len(),
\* panics and leaves the value unchanged; an empty range given to
\* remove_range, at len() too, leaves the content unchanged and does not
\* panic.
C30_RangeBounds ==
    op.name \in {"remove_range", "replace_range"} =>
        IF ValidRange
            THEN /\ ~ret.panic
                 /\ as_bytes(str) = Spliced
                 /\ (op.name = "remove_range" /\ RangeLen = 0) =>
                        as_bytes(str) = as_bytes(prev)
            ELSE /\ ret.panic
                 /\ str = prev

\* a range from an excluded start to an included end took a multi-byte
\* character out of the middle of a heap value
C30_Witness ==
    /\ op.name = "remove_range"
    /\ ~ret.panic
    /\ is_heap(prev)
    /\ op.n.kind = "Excluded"
    /\ op.m.kind = "Included"
    /\ RangeLen > 1
    /\ as_bytes(prev)[StartOf(op.n) + 1] >= 192
    /\ EndOf(op.m, len(prev)) < len(prev)
    /\ len(str) = len(prev) - RangeLen

\* unit i of units is a surrogate that belongs to no pair
Unpaired(units, i) ==
    \/ /\ is_leading_surrogate(units[i])
       /\ ~(i < Len(units) /\ is_trailing_surrogate(units[i + 1]))
    \/ /\ is_trailing_surrogate(units[i])
       /\ ~(i > 1 /\ is_leading_surrogate(units[i - 1]))

\* the bytes unit i of units stands for: those of its character, those of
\* the character of the pair it leads, none when it ends a pair, and those
\* of U+FFFD when it is unpaired
UnitBytes(units, i) ==
    IF Unpaired(units, i) THEN encode_utf8(REPLACEMENT_CHARACTER)
    ELSE IF is_leading_surrogate(units[i])
        THEN encode_utf8(65536 + (units[i] % 1024) * 1024 + (units[i + 1] % 1024))
    ELSE IF is_trailing_surrogate(units[i]) THEN <<>>
    ELSE encode_utf8(units[i])

RECURSIVE BytesUpTo(_, _)
BytesUpTo(units, n) ==
    IF n = 0 THEN <<>> ELSE BytesUpTo(units, n - 1) \o UnitBytes(units, n)

\* C23: from_utf16(units) is an error when units holds an unpaired surrogate
\* and the decoded string otherwise; from_utf16_lossy(units) always returns
\* a string: the one from_utf16 returns when that succeeds, and otherwise
\* the valid characters in order with one U+FFFD for each unpaired surrogate.
C23_Utf16Decodes ==
    /\ op.name = "from_utf16" =>
        /\ ~ub
        /\ ret.some <=> (\A i \in 1..Len(op.s) : ~Unpaired(op.s, i))
        /\ ret.some => as_bytes(str) = BytesUpTo(op.s, Len(op.s))
    /\ op.name = "from_utf16_lossy" =>
        /\ ~ub
        /\ ret.some
        /\ as_bytes(str) = BytesUpTo(op.s, Len(op.s))

\* the bytes of s, times times, by offset
Copies(s, times) == [i \in 1..(Len(s) * times) |-> s[((i - 1) % Len(s)) + 1]]

\* len * times does not fit the word: the high half with the carry of the
\* low half reaches 2^16
Overflows(n, times) ==
    \E carry \in 0..n :
        /\ carry * Half <= n * times.lo
        /\ n * times.hi + carry >= Half

\* C24: StrExt::repeat(s, times) returns s concatenated times times: empty
\* and inline when s.len() * times is 0, heap exactly when s.len() * times
\* exceeds the inline capacity; it panics when s.len() * times overflows
\* the machine word.
C24_Repeat ==
    op.name = "repeat" =>
        IF Overflows(Len(op.s), op.n) THEN ret.panic
        ELSE LET product == IF op.s = <<>> THEN 0 ELSE Len(op.s) * op.n.lo
             IN /\ ~ret.panic
                /\ as_bytes(str) = Copies(op.s, product \div (IF op.s = <<>> THEN 1 ELSE Len(op.s)))
                /\ len(str) = product
                /\ product = 0 => (is_empty(str) /\ ~is_heap(str))
                /\ is_heap(str) <=> product > SSO_MAX_SIZE

\* a two-byte string repeated 2^31 times: the product is 2^32, which wraps
\* to 0
C24_Witness ==
    /\ op.name = "repeat"
    /\ Len(op.s) = 2
    /\ op.n = usize(Half \div 2, 0)
    /\ ret.panic

====
